---- MODULE Spec2Model ----
(***************************************************************************)
(* Model of the TissueMAPS viewer front end:                               *)
(*   - Viewport   (app/src/core/viewport/Viewport.ts)                      *)
(*   - ToolbarCtrl (app/src/viewer/toolui/toolbar/tmToolbar.ts)            *)
(* Numbers that the code obtains through a floating point division are     *)
(* kept as exact fractions [n, d].                                         *)
(***************************************************************************)
EXTENDS Integers, Sequences, FiniteSets, TLC

\* ------------------------------------------------------------------ bounds
\* longest owned layer list / map render list that is explored
MaxLayers == 2
\* image sizes of the ChannelLayers are (w, MaxDim + 1 - w), w in 1..MaxDim
MaxDim == 2
\* deepest zoom level a fit may select
MaxZoom == 1
\* longest log of toggleToolWindow requests that is explored
MaxToggles == 4

\* ----------------------------------------------------------- layer universe
\* Layers are identified by object identity; here by a number.
ChannelLayer == 1..MaxDim
OtherLayer == {0}
Layer == ChannelLayer \cup OtherLayer

\* layer instanceof ChannelLayer
IsChannelLayer(layer) == layer \in ChannelLayer

\* (<ChannelLayer>layer).imageSize
imageSize(layer) == <<layer, MaxDim + 1 - layer>>

\* ------------------------------------------------------------------- state
VARIABLES
    layers,          \* Viewport.layers, the owned ordered list
    mapLayers,       \* the layers attached to this.map (its render list)
    view,            \* the view installed by map.setView, or NoView
    target,          \* the element the map renders into, or NoTarget
    size,            \* map.getSize(), or NoSize
    err,             \* the error thrown by the last Viewport call, or NoError
    last,            \* the last Viewport call: [op, layer]
    firstSize,       \* history: image size of the first layer ever added
    emptyAdds,       \* history: sizes of ChannelLayers added to an empty list
    tools,           \* ToolbarCtrl.tools
    toolsPromise,    \* $scope.viewer.tools as seen by the subscriber
    toggleRequests,  \* calls received by toolUICtrl.toggleToolWindow
    clicks           \* history: the arguments of the clickToolTab calls

vars == <<layers, mapLayers, view, target, size, err, last, firstSize,
          emptyAdds, tools, toolsPromise, toggleRequests, clicks>>

viewportVars == <<layers, mapLayers, view, target, size, err, last,
                  firstSize, emptyAdds>>

toolbarVars == <<tools, toolsPromise, toggleRequests, clicks>>

NoView == [none |-> TRUE]
NoTarget == "no target"
NoSize == <<>>
NoError == "no error"
InvalidFirstLayer == "The first layer to be added has to be a ChannelLayer in order to set the view!"
TypeError == "TypeError"
NoLayer == -1

\* ----------------------------------------------------------- array helpers
\* Array.prototype.indexOf: 0-based index of the first occurrence, else -1
RECURSIVE indexOfFrom(_, _, _)
indexOfFrom(arr, x, i) ==
    IF i > Len(arr) THEN -1
    ELSE IF arr[i] = x THEN i - 1
    ELSE indexOfFrom(arr, x, i + 1)

indexOf(arr, x) == indexOfFrom(arr, x, 1)

\* Array.prototype.splice(start, deleteCount) without inserted items:
\* a negative start counts from the end of the array.
splice(arr, start, deleteCount) ==
    LET len == Len(arr)
        from == IF start < 0
                THEN (IF len + start < 0 THEN 0 ELSE len + start)
                ELSE (IF start > len THEN len ELSE start)
        cnt0 == IF deleteCount < 0 THEN 0 ELSE deleteCount
        cnt == IF cnt0 > len - from THEN len - from ELSE cnt0
    IN SubSeq(arr, 1, from) \o SubSeq(arr, from + cnt + 1, len)

\* number of occurrences of x in arr
Count(arr, x) == Cardinality({i \in 1..Len(arr) : arr[i] = x})

\* the elements of arr
Elems(arr) == {arr[i] : i \in 1..Len(arr)}

\* ------------------------------------------------------------------ Layer
\* layer.addToMap(map): the layer is attached to the map's render list
addToMap(ml, layer) == Append(ml, layer)

\* layer.removeFromMap(map): the layer is detached from the map
removeFromMap(ml, layer) ==
    LET idx == indexOf(ml, layer)
    IN IF idx = -1 THEN ml ELSE splice(ml, idx, 1)

\* --------------------------------------------------------------- Viewport
\* x / 2 in floating point, as an exact fraction
Half(x) == [n |-> x, d |-> 2]

\* _setView without the negative sign in front of half the height
_setViewNoNegation(mapWidth, mapHeight) ==
    [extent |-> <<0, 0, mapWidth, mapHeight>>,
     center |-> <<Half(mapWidth), Half(mapHeight)>>,
     zoom |-> 0]

\* Viewport._setView: the view that map.setView receives
_setView(mapWidth, mapHeight) ==
    LET width == mapWidth
        height == mapHeight
        center == <<Half(width), Half(-height)>>
        extent == <<0, 0, width, height>>
    IN [extent |-> extent, center |-> center, zoom |-> 0]

\* this.map.getView().getProjection().getExtent()
getExtent(v) == IF v = NoView THEN <<>> ELSE v.extent

\* Viewport.mapSize
mapSize(v) ==
    LET ext == getExtent(v)
    IN [width |-> ext[3], height |-> ext[4]]

\* the Viewport as a value, for the methods below
vp == [layers |-> layers, mapLayers |-> mapLayers, view |-> view]

\* addLayer without the check of the first layer
addLayerUnchecked(s, layer) ==
    LET alreadyHasLayers == Len(s.layers) # 0
    IN [layers |-> Append(s.layers, layer),
        mapLayers |-> addToMap(s.mapLayers, layer),
        view |-> IF ~alreadyHasLayers /\ IsChannelLayer(layer)
                 THEN _setView(imageSize(layer)[1], imageSize(layer)[2])
                 ELSE s.view,
        err |-> NoError]

\* Viewport.addLayer: the Viewport after the call and the error thrown
addLayer(s, layer) ==
    LET ml == addToMap(s.mapLayers, layer)
        alreadyHasLayers == Len(s.layers) # 0
    IN IF ~alreadyHasLayers /\ ~IsChannelLayer(layer)
       THEN [layers |-> s.layers, mapLayers |-> ml, view |-> s.view,
             err |-> InvalidFirstLayer]
       ELSE [layers |-> Append(s.layers, layer),
             mapLayers |-> ml,
             view |-> IF ~alreadyHasLayers
                      THEN _setView(imageSize(layer)[1], imageSize(layer)[2])
                      ELSE s.view,
             err |-> NoError]

\* Viewport.removeLayer
removeLayer(s, layer) ==
    LET ml == removeFromMap(s.mapLayers, layer)
        idx == indexOf(s.layers, layer)
    IN [layers |-> splice(s.layers, idx, 1), mapLayers |-> ml,
        view |-> s.view, err |-> NoError]

\* goToMapObject installing a fresh view sized to the object
goToMapObjectNewView(s, center, zoom) ==
    [layers |-> s.layers, mapLayers |-> s.mapLayers,
     view |-> [extent |-> <<0, 0, center[1].n, center[1].n>>,
               center |-> center, zoom |-> zoom],
     err |-> NoError]

\* Viewport.goToMapObject: view.fit moves the centre and the zoom level
goToMapObject(s, center, zoom) ==
    [layers |-> s.layers, mapLayers |-> s.mapLayers,
     view |-> [s.view EXCEPT !.center = center, !.zoom = zoom],
     err |-> NoError]

\* centres of the geometries a map object can have
FitCenters == {<<[n |-> 1, d |-> 1], [n |-> -1, d |-> 1]>>,
               <<[n |-> 3, d |-> 2], [n |-> -1, d |-> 2]>>}

\* display surfaces and the pixel sizes they can have
Elements == {"element"}
PxSizes == {<<1, 1>>, <<2, 1>>}

\* ------------------------------------------------------------ ToolbarCtrl
Tools == {"A", "B"}

\* the lists the tool source can resolve with
ToolLists == {<<>>, <<"A">>, <<"A", "B">>, <<"B", "A">>}

Pending == [state |-> "pending"]
Rejected == [state |-> "rejected"]
Resolved(list) == [state |-> "resolved", value |-> list]

\* the callback passed to $scope.viewer.tools.then
thenTools(oldTools, resolvedTools) == resolvedTools

\* clickToolTab forwarding the request twice
clickToolTabTwice(requests, tool) == Append(Append(requests, tool), tool)

\* ToolbarCtrl.clickToolTab: the requests toolUICtrl has received
clickToolTab(requests, tool) == Append(requests, tool)

\* -------------------------------------------------------------------- Init
Init ==
    /\ layers = <<>>
    /\ mapLayers = <<>>
    /\ view = NoView
    /\ target = NoTarget
    /\ size = NoSize
    /\ err = NoError
    /\ last = [op |-> "constructor", layer |-> NoLayer]
    /\ firstSize = <<>>
    /\ emptyAdds = {}
    /\ tools = <<>>
    /\ toolsPromise = Pending
    /\ toggleRequests = <<>>
    /\ clicks = <<>>

\* ----------------------------------------------------------------- actions
AddLayer ==
    \E layer \in Layer :
        /\ Len(layers) < MaxLayers
        /\ Len(mapLayers) < MaxLayers
        /\ LET r == addLayer(vp, layer)
           IN /\ layers' = r.layers
              /\ mapLayers' = r.mapLayers
              /\ view' = r.view
              /\ err' = r.err
              /\ firstSize' = IF r.err = NoError /\ firstSize = <<>>
                              THEN imageSize(layer) ELSE firstSize
              /\ emptyAdds' = IF r.err = NoError /\ layers = <<>>
                              THEN emptyAdds \cup {imageSize(layer)}
                              ELSE emptyAdds
        /\ last' = [op |-> "addLayer", layer |-> layer]
        /\ UNCHANGED <<target, size>>
        /\ UNCHANGED toolbarVars

RemoveLayer ==
    \E layer \in Layer :
        /\ LET r == removeLayer(vp, layer)
           IN /\ layers' = r.layers
              /\ mapLayers' = r.mapLayers
              /\ view' = r.view
              /\ err' = r.err
        /\ last' = [op |-> "removeLayer", layer |-> layer]
        /\ UNCHANGED <<target, size, firstSize, emptyAdds>>
        /\ UNCHANGED toolbarVars

\* map.updateSize() measures the target element
Update ==
    /\ size' \in (IF target = NoTarget THEN {NoSize} ELSE PxSizes)
    /\ err' = NoError
    /\ last' = [op |-> "update", layer |-> NoLayer]
    /\ UNCHANGED <<layers, mapLayers, view, target, firstSize, emptyAdds>>
    /\ UNCHANGED toolbarVars

\* Without a view installed by addLayer the call reaches a view this class
\* never made; whether getView().fit throws is left open.
GoToMapObject ==
    /\ \/ /\ view # NoView
          /\ \E center \in FitCenters, zoom \in 0..MaxZoom :
                LET r == goToMapObject(vp, center, zoom)
                IN /\ layers' = r.layers
                   /\ mapLayers' = r.mapLayers
                   /\ view' = r.view
                   /\ err' = r.err
       \/ /\ view = NoView
          /\ err' \in {NoError, TypeError}
          /\ UNCHANGED <<layers, mapLayers, view>>
    /\ last' = [op |-> "goToMapObject", layer |-> NoLayer]
    /\ UNCHANGED <<target, size, firstSize, emptyAdds>>
    /\ UNCHANGED toolbarVars

Serialize ==
    /\ err' = NoError
    /\ last' = [op |-> "serialize", layer |-> NoLayer]
    /\ UNCHANGED <<layers, mapLayers, view, target, size, firstSize,
                   emptyAdds>>
    /\ UNCHANGED toolbarVars

\* map.setTarget(element); the map measures its new target
RenderMap ==
    \E element \in Elements :
        /\ target' = element
        /\ size' \in PxSizes
        /\ err' = NoError
        /\ last' = [op |-> "renderMap", layer |-> NoLayer]
        /\ UNCHANGED <<layers, mapLayers, view, firstSize, emptyAdds>>
        /\ UNCHANGED toolbarVars

\* $scope.viewer.tools resolves and the subscriber's callback runs
ToolsResolved ==
    \E list \in ToolLists :
        /\ toolsPromise = Pending
        /\ toolsPromise' = Resolved(list)
        /\ tools' = thenTools(tools, list)
        /\ UNCHANGED <<toggleRequests, clicks>>
        /\ UNCHANGED viewportVars

\* $scope.viewer.tools is rejected: no callback is registered for that
ToolsRejected ==
    /\ toolsPromise = Pending
    /\ toolsPromise' = Rejected
    /\ UNCHANGED <<tools, toggleRequests, clicks>>
    /\ UNCHANGED viewportVars

ClickToolTab ==
    \E tool \in Tools :
        /\ Len(toggleRequests) < MaxToggles
        /\ toggleRequests' = clickToolTab(toggleRequests, tool)
        /\ clicks' = Append(clicks, tool)
        /\ UNCHANGED <<tools, toolsPromise>>
        /\ UNCHANGED viewportVars

Next ==
    \/ AddLayer
    \/ RemoveLayer
    \/ Update
    \/ GoToMapObject
    \/ Serialize
    \/ RenderMap

Spec == Init /\ [][Next]_vars

ToolbarNext ==
    \/ ToolsResolved
    \/ ToolsRejected
    \/ ClickToolTab

ToolbarSpec == Init /\ [][ToolbarNext]_vars

\* ------------------------------------------------------------------ claims
FramingOps == {"goToMapObject", "update", "renderMap", "serialize"}

\* x = num / 2 for the fraction x
IsHalfOf(x, num) == x.d > 0 /\ 2 * x.n = num * x.d

\* C1: a non-ChannelLayer added as the very first layer always throws, and
\* a non-ChannelLayer added at any point after a ChannelLayer has been added
\* is appended to the owned list without an error.
C1_FirstLayerRule ==
    (last.op = "addLayer" /\ last.layer \in OtherLayer) =>
        IF firstSize = <<>>
        THEN err = InvalidFirstLayer /\ layers = <<>>
        ELSE /\ err = NoError
             /\ layers # <<>>
             /\ layers[Len(layers)] = last.layer

C3_RemoveThenAddOnce ==
    \A L \in Layer :
        Count(layers, L) = 1 =>
            LET r == addLayer(removeLayer(vp, L), L)
            IN r.err = NoError /\ Count(r.layers, L) = 1

\* C4: once the first layer has been added, the projection extent and
\* mapSize stay those derived from the first ChannelLayer ever added.
C4_ViewFixedAtFirstAdd ==
    firstSize # <<>> =>
        /\ getExtent(view) = <<0, 0, firstSize[1], firstSize[2]>>
        /\ mapSize(view) = [width |-> firstSize[1], height |-> firstSize[2]]

\* C5: removeLayer(L) for a layer L that is not in the owned list leaves
\* the owned list as it was.
C5_RemoveAbsentNoOp ==
    [][(last'.op = "removeLayer" /\ last'.layer \notin Elems(layers))
          => layers' = layers]_vars

\* C6: goToMapObject, update, renderMap and serialize never change the
\* owned layer list nor the projection extent; goToMapObject changes at
\* most the framing (centre, zoom) of the view.
C6_FramingOpsKeepLayers ==
    [][last'.op \in FramingOps =>
          /\ layers' = layers
          /\ getExtent(view') = getExtent(view)
          /\ (view = NoView) = (view' = NoView)]_vars

\* a fit that has moved the view of a Viewport that owns layers
C6_Witness ==
    /\ last.op = "goToMapObject"
    /\ err = NoError
    /\ layers # <<>>
    /\ view # NoView
    /\ view.center \in FitCenters
    /\ view.zoom = MaxZoom

\* C7: until the tool source resolves the tool list is empty; once it has
\* resolved with a list the tool list is that list and stays so; every
\* clickToolTab(T) forwards exactly one toggleToolWindow(T) request and
\* leaves the tool list alone.
C7_ToolbarForwards ==
    /\ [](toolsPromise.state # "resolved" => tools = <<>>)
    /\ [](toolsPromise.state = "resolved" => tools = toolsPromise.value)
    /\ [][toolsPromise.state = "resolved" => tools' = tools]_vars
    /\ [](toggleRequests = clicks)
    /\ [][clicks' # clicks => tools' = tools]_vars

\* clicks on both sides of a resolution with [A, B]
C7_Witness ==
    /\ toolsPromise = Resolved(<<"A", "B">>)
    /\ tools = <<"A", "B">>
    /\ Len(clicks) >= 2
    /\ toggleRequests[Len(toggleRequests)] = "A"

\* C8: when addLayer fails with the invalid-first-layer error the Viewport
\* is unchanged: the owned list is still empty, the view is as before, and
\* the rejected layer is not attached to the map.
C8_FailedAddChangesNothing ==
    [][(last'.op = "addLayer" /\ err' = InvalidFirstLayer) =>
          /\ layers' = layers
          /\ layers' = <<>>
          /\ view' = view
          /\ mapLayers' = mapLayers
          /\ Elems(mapLayers') \subseteq Elems(layers')]_vars

\* C9: the set of layers attached to the map equals the set of layers in
\* the owned list.
C9_MapLayersAreOwnedLayers == Elems(mapLayers) = Elems(layers)

\* C10: whenever the owned list is non-empty, the map has a view whose
\* projection extent is [0, 0, W, H] for the image size (W, H) of a
\* ChannelLayer that was added while the owned list was empty.
C10_OwnedLayersImplyView ==
    layers # <<>> =>
        /\ view # NoView
        /\ \E sz \in emptyAdds :
              /\ getExtent(view) = <<0, 0, sz[1], sz[2]>>
              /\ mapSize(view) = [width |-> sz[1], height |-> sz[2]]

\* the owned list starts with a non-ChannelLayer and the view is still set
C10_Witness ==
    /\ layers # <<>>
    /\ ~IsChannelLayer(layers[1])
    /\ view # NoView

====
